---- MODULE Spec2Model ----
(***************************************************************************)
(* A model of api/common/event.go of tracy: the location classifier        *)
(* (getTracerLocation, getDOMContexts), event ingestion (AddEvent) and the *)
(* event cache worker (tracerEventCache) with its three channels.          *)
(*                                                                         *)
(* Strings are sequences of one-character strings, so that                 *)
(* strings.Contains and strings.HasPrefix are computed, not assumed.       *)
(***************************************************************************)
EXTENDS Integers, Sequences, FiniteSets, TLC

(***************************************************************************)
(* Bounds of the model.                                                    *)
(***************************************************************************)
\* Operations (AddEvent, GetEvents, ClearTracerEventCache) started in a run.
MaxOps == 4
\* AddEvent calls started in a run of SpecIngest.
MaxAdds == 2
\* Calls started in a run of SpecLive.
MaxCalls == 3
\* Calls of the parser and the Store that fail in a run.
MaxFaults == 1
\* Depth of the document trees below the root that the classifier is run on.
MaxDepth == 2
\* Width of uint/int in the model (64 in the build): only the wrap of the
\* all-ones uint to the int -1 matters.
UintBits == 4

(***************************************************************************)
(* Program constants.                                                      *)
(***************************************************************************)
\* make(chan ..., 10)
ChanCap == 10
\* the cache's flush sentinel on the read channel
FlushSentinel == -1
\* the severity from which AddEvent sends a Notification
NotifySeverity == 2

(***************************************************************************)
(* Strings.                                                                *)
(***************************************************************************)
\* strings.Contains(s, substr)
Contains(s, substr) ==
    \E i \in 0..(Len(s) - Len(substr)) : SubSeq(s, i + 1, i + Len(substr)) = substr

\* strings.HasPrefix(s, prefix)
HasPrefix(s, prefix) ==
    /\ Len(s) >= Len(prefix)
    /\ SubSeq(s, 1, Len(prefix)) = prefix

sScript == <<"s", "c", "r", "i", "p", "t">>
sHref == <<"h", "r", "e", "f">>
sOn == <<"o", "n">>
sOnclick == <<"o", "n", "c", "l", "i", "c", "k">>
sDiv == <<"d", "i", "v">>
sId == <<"i", "d">>
sEmpty == <<>>
\* The tracer payload (the marker) used in the model, and strings around it.
sMarker == <<"z", "q">>
sMarkerTail == <<"z", "q", "x">>
sMarkerMid == <<"x", "z", "q">>
sPlain == <<"x", "z">>

(***************************************************************************)
(* html.Node: the node types of golang.org/x/net/html and the values of    *)
(* package types that event.go uses.                                       *)
(***************************************************************************)
NodeTypes == {"TextNode", "DocumentNode", "ElementNode", "CommentNode", "DoctypeNode"}

\* The zero value of `var reason uint`, which the spec calls Unclassified.
Unclassified == "Unclassified"

\* types.HTML and types.JSON, the formats of a raw event.
FormatHTML == "HTML"
FormatJSON == "JSON"

Max(a, b) == IF a > b THEN a ELSE b

DOMContext(parentData, loc, sev, reason) ==
    [HTMLNodeType |-> parentData, HTMLLocationType |-> loc,
     Severity |-> sev, Reason |-> reason]

(***************************************************************************)
(* getTracerLocation.  The walk state w carries the two out-parameters:    *)
(* w.locs is *tracerLocations and w.highest is *highest.                   *)
(***************************************************************************)
\* A slip: the script-tag rule is applied after the tag-name rule and wins.
NodeMatch_ScriptWins(n, parentData, tracer, eventType, w) ==
    IF ~Contains(n.Data, tracer)
    THEN [locs |-> w.locs, highest |-> w.highest, sev |-> 0, reason |-> Unclassified]
    ELSE IF n.Type = "TextNode"
    THEN [locs |-> Append(w.locs, DOMContext(parentData, "Text", 0, "LeafNode")),
          highest |-> w.highest, sev |-> 0, reason |-> Unclassified]
    ELSE IF n.Type \in {"DocumentNode", "ElementNode", "DoctypeNode"}
    THEN LET s1 == IF n.Type = "ElementNode" /\ eventType # "response" THEN 3 ELSE 0
             r1 == IF n.Type = "ElementNode" /\ eventType # "response"
                   THEN "TagName" ELSE Unclassified
             s2 == IF parentData = sScript /\ eventType # "response" THEN 1 ELSE s1
             r2 == IF parentData = sScript /\ eventType # "response"
                   THEN "LeafNodeScriptTag" ELSE r1
         IN [locs |-> Append(w.locs, DOMContext(parentData, "NodeName", s2, r2)),
             highest |-> Max(w.highest, s2), sev |-> s2, reason |-> r2]
    ELSE LET s1 == IF eventType # "response" THEN 1 ELSE 0
         IN [locs |-> Append(w.locs, DOMContext(parentData, "Comment", s1, "LeafNodeCommentTag")),
             highest |-> Max(w.highest, s1), sev |-> s1, reason |-> Unclassified]

\* A slip: a comment's severity does not depend on the event type.
NodeMatch_CommentAlways(n, parentData, tracer, eventType, w) ==
    IF ~Contains(n.Data, tracer)
    THEN [locs |-> w.locs, highest |-> w.highest, sev |-> 0, reason |-> Unclassified]
    ELSE IF n.Type = "TextNode"
    THEN [locs |-> Append(w.locs, DOMContext(parentData, "Text", 0, "LeafNode")),
          highest |-> w.highest, sev |-> 0, reason |-> Unclassified]
    ELSE IF n.Type \in {"DocumentNode", "ElementNode", "DoctypeNode"}
    THEN LET s1 == IF parentData = sScript /\ eventType # "response" THEN 1 ELSE 0
             r1 == IF parentData = sScript /\ eventType # "response"
                   THEN "LeafNodeScriptTag" ELSE Unclassified
             s2 == IF n.Type = "ElementNode" /\ eventType # "response" THEN 3 ELSE s1
             r2 == IF n.Type = "ElementNode" /\ eventType # "response"
                   THEN "TagName" ELSE r1
         IN [locs |-> Append(w.locs, DOMContext(parentData, "NodeName", s2, r2)),
             highest |-> Max(w.highest, s2), sev |-> s2, reason |-> r2]
    ELSE [locs |-> Append(w.locs, DOMContext(parentData, "Comment", 1, "LeafNodeCommentTag")),
          highest |-> Max(w.highest, 1), sev |-> 1, reason |-> Unclassified]

\* Lines 198-255: the node's own match.  Yields the walk state and the
\* node's working sev and reason as they stand before the attribute loop.
NodeMatch(n, parentData, tracer, eventType, w) ==
    IF ~Contains(n.Data, tracer)
    THEN [locs |-> w.locs, highest |-> w.highest, sev |-> 0, reason |-> Unclassified]
    ELSE IF n.Type = "TextNode"
    THEN [locs |-> Append(w.locs, DOMContext(parentData, "Text", 0, "LeafNode")),
          highest |-> w.highest, sev |-> 0, reason |-> Unclassified]
    ELSE IF n.Type \in {"DocumentNode", "ElementNode", "DoctypeNode"}
    THEN LET s1 == IF parentData = sScript /\ eventType # "response" THEN 1 ELSE 0
             r1 == IF parentData = sScript /\ eventType # "response"
                   THEN "LeafNodeScriptTag" ELSE Unclassified
             s2 == IF n.Type = "ElementNode" /\ eventType # "response" THEN 3 ELSE s1
             r2 == IF n.Type = "ElementNode" /\ eventType # "response"
                   THEN "TagName" ELSE r1
         IN [locs |-> Append(w.locs, DOMContext(parentData, "NodeName", s2, r2)),
             highest |-> Max(w.highest, s2), sev |-> s2, reason |-> r2]
    ELSE LET s1 == IF eventType # "response" THEN 1 ELSE 0
         IN [locs |-> Append(w.locs, DOMContext(parentData, "Comment", s1, "LeafNodeCommentTag")),
             highest |-> Max(w.highest, s1), sev |-> s1, reason |-> Unclassified]

\* A slip: the default of a value match is assigned before the value is
\* tested, so an attribute without the marker leaves a working severity of 1.
AttrMatch_DefaultFirst(n, a, tracer, eventType, st) ==
    IF Contains(a.Key, tracer)
    THEN LET s == IF eventType # "response" THEN 3 ELSE 1
             r == IF eventType # "response" THEN "AttributeName"
                  ELSE "AttributeNameHTTPResponse"
         IN [st EXCEPT !.locs = Append(@, DOMContext(n.Data, "Attr", s, r)),
                       !.sev = s, !.reason = r]
    ELSE IF Contains(a.Val, tracer)
    THEN LET special == eventType # "response"
             href == special /\ a.Key = sHref /\ HasPrefix(a.Val, tracer)
             onh == special /\ ~href /\ HasPrefix(a.Key, sOn)
             s == IF href \/ onh THEN 2 ELSE 1
             r == IF href THEN "AttributeValueStartHref"
                  ELSE IF onh THEN "AttributeValueOnEventHandler"
                  ELSE "AttributeValueHTTPResponse"
         IN [st EXCEPT !.locs = Append(@, DOMContext(n.Data, "AttrVal", s, r)),
                       !.sev = s, !.reason = r]
    ELSE [st EXCEPT !.sev = 1, !.reason = "AttributeValueHTTPResponse"]

\* A slip: the href and on-handler rules are applied to every event type.
AttrMatch_AnyKind(n, a, tracer, eventType, st) ==
    IF Contains(a.Key, tracer)
    THEN LET s == IF eventType # "response" THEN 3 ELSE 1
             r == IF eventType # "response" THEN "AttributeName"
                  ELSE "AttributeNameHTTPResponse"
         IN [st EXCEPT !.locs = Append(@, DOMContext(n.Data, "Attr", s, r)),
                       !.sev = s, !.reason = r]
    ELSE IF Contains(a.Val, tracer)
    THEN LET href == a.Key = sHref /\ HasPrefix(a.Val, tracer)
             onh == ~href /\ HasPrefix(a.Key, sOn)
             s == IF href \/ onh THEN 2 ELSE 1
             r == IF href THEN "AttributeValueStartHref"
                  ELSE IF onh THEN "AttributeValueOnEventHandler"
                  ELSE "AttributeValueHTTPResponse"
         IN [st EXCEPT !.locs = Append(@, DOMContext(n.Data, "AttrVal", s, r)),
                       !.sev = s, !.reason = r]
    ELSE st

\* Lines 258-302: one attribute; st is the state NodeMatch yields.
AttrMatch(n, a, tracer, eventType, st) ==
    IF Contains(a.Key, tracer)
    THEN LET s == IF eventType # "response" THEN 3 ELSE 1
             r == IF eventType # "response" THEN "AttributeName"
                  ELSE "AttributeNameHTTPResponse"
         IN [st EXCEPT !.locs = Append(@, DOMContext(n.Data, "Attr", s, r)),
                       !.sev = s, !.reason = r]
    ELSE IF Contains(a.Val, tracer)
    THEN LET special == eventType # "response"
             href == special /\ a.Key = sHref /\ HasPrefix(a.Val, tracer)
             onh == special /\ ~href /\ HasPrefix(a.Key, sOn)
             s == IF href \/ onh THEN 2 ELSE 1
             r == IF href THEN "AttributeValueStartHref"
                  ELSE IF onh THEN "AttributeValueOnEventHandler"
                  ELSE "AttributeValueHTTPResponse"
         IN [st EXCEPT !.locs = Append(@, DOMContext(n.Data, "AttrVal", s, r)),
                       !.sev = s, !.reason = r]
    ELSE st

\* Lines 257-307: the attribute loop, from attribute i on.  The working sev
\* is not reset between attributes and is compared with *highest after each.
RECURSIVE AttrLoop(_, _, _, _, _)
AttrLoop(n, i, tracer, eventType, st) ==
    IF i > Len(n.Attr) THEN st
    ELSE LET m == AttrMatch(n, n.Attr[i], tracer, eventType, st)
         IN AttrLoop(n, i + 1, tracer, eventType,
                     [m EXCEPT !.highest = Max(m.highest, m.sev)])

\* Lines 187-312.  parentData is n.Parent.Data, "" for a node with no parent.
RECURSIVE getTracerLocation(_, _, _, _, _)
RECURSIVE WalkChildren(_, _, _, _, _)
getTracerLocation(n, parentData, tracer, eventType, w) ==
    LET st == AttrLoop(n, 1, tracer, eventType,
                       NodeMatch(n, parentData, tracer, eventType, w))
    IN WalkChildren(n, 1, tracer, eventType,
                    [locs |-> st.locs, highest |-> st.highest])

\* Lines 309-311: the children in document order, from child i on.
WalkChildren(n, i, tracer, eventType, w) ==
    IF i > Len(n.Children) THEN w
    ELSE WalkChildren(n, i + 1, tracer, eventType,
                      getTracerLocation(n.Children[i], n.Data, tracer, eventType, w))

\* getDOMContexts lines 119-135: the classifier run on a parsed document.
Classify(doc, tracer, eventType) ==
    getTracerLocation(doc, sEmpty, tracer, eventType, [locs |-> <<>>, highest |-> 0])

\* A slip: only the event's severity is reset, the contexts keep theirs.
TextOverride_HighestOnly(c, eventType) ==
    IF eventType = "text" THEN [locs |-> c.locs, highest |-> 0] ELSE c

\* getDOMContexts lines 142-148: a "text" event has every severity forced to 0.
TextOverride(c, eventType) ==
    IF eventType = "text"
    THEN [locs |-> [i \in 1..Len(c.locs) |-> [c.locs[i] EXCEPT !.Severity = 0]],
          highest |-> 0]
    ELSE c

(***************************************************************************)
(* The state.                                                              *)
(***************************************************************************)
VARIABLES
    dbEvents,    \* Store: the tracer_events rows in ID order, with their DOMContexts
    dbTracer,    \* Store: per tracer, overall_severity and has_tracer_events
    events,      \* tracerEventCache: the map `events`, a function on its keys
    wpc,         \* tracerEventCache: "select", "send" (at out <- ...), "crashed"
    wOut,        \* tracerEventCache: the reply it is sending
    inR,         \* inReadChanEvent
    inU,         \* inUpdateChanEvent
    out,         \* outChanEvent
    pc,          \* per caller: where it stands in its call
    tracerArg,   \* per caller: AddEvent's tracer parameter
    eventArg,    \* per caller: AddEvent's event (and copy)
    ret,         \* per caller: the error AddEvent returned, the id GetEvents got
    got,         \* per caller: what GetEvents received from outChanEvent
    notes,       \* per caller: what its call passed to UpdateSubscribers
    ops,         \* calls started
    faults,      \* collaborator calls that failed
    hist,        \* history: the read the worker is answering
    loadedSet,   \* history: keys loaded from the Store since the last flush
    needFresh,   \* history: keys cached at the last flush and not read since
    issued,      \* history: per key, the events sent on inUpdateChanEvent
    clean,       \* history: per key, no read of it and no flush was issued yet
    cpc,         \* classifier run: "off", "in", "classified", "done"
    cIn,         \* classifier run: the document and the event type
    cOut         \* classifier run: the contexts and the highest severity

storeVars == <<dbEvents, dbTracer>>
workerVars == <<events, wpc, wOut>>
chanVars == <<inR, inU, out>>
callVars == <<pc, tracerArg, eventArg, ret, got, notes>>
histVars == <<hist, loadedSet, needFresh, issued, clean>>
classVars == <<cpc, cIn, cOut>>
vars == <<storeVars, workerVars, chanVars, callVars, ops, faults, histVars, classVars>>

(***************************************************************************)
(* Callers, tracers and the integer conversions of the cache's keys.       *)
(***************************************************************************)
Procs == {"a", "b"}
Tracers == {1, 2}

\* The largest uint.
MaxUint == 2 ^ UintBits - 1
\* int(tracerID), int(tracer.ID)
ToInt(u) == IF u >= 2 ^ (UintBits - 1) THEN u - 2 ^ UintBits ELSE u
\* uint(i)
ToUint(i) == IF i < 0 THEN i + 2 ^ UintBits ELSE i

\* The tracer identifiers a caller of GetEvents passes.
GetIDs == Tracers \cup {MaxUint}
Keys == {ToInt(u) : u \in GetIDs}

(***************************************************************************)
(* Raw events: the rows AddEventData has created.  Data names the capture; *)
(* Parse is html.Parse of it (the parser is a collaborator).               *)
(***************************************************************************)
EmptyRaw == [ID |-> 0, Format |-> "", Data |-> ""]
RawTable ==
    <<[ID |-> 1, Format |-> FormatHTML, Data |-> "tag"],
      [ID |-> 2, Format |-> FormatHTML, Data |-> "comment"],
      [ID |-> 3, Format |-> FormatHTML, Data |-> "href"],
      [ID |-> 4, Format |-> FormatHTML, Data |-> "plain"],
      [ID |-> 5, Format |-> FormatJSON, Data |-> "json"]>>

Node(t, d, a, c) == [Type |-> t, Data |-> d, Attr |-> a, Children |-> c]
Attr(k, v) == [Key |-> k, Val |-> v]
Doc(children) == Node("DocumentNode", sEmpty, <<>>, children)

Parse(data) ==
    CASE data = "tag" ->
            Doc(<<Node("ElementNode", sMarker, <<Attr(sOnclick, sMarkerMid)>>, <<>>)>>)
      [] data = "comment" -> Doc(<<Node("CommentNode", sMarkerMid, <<>>, <<>>)>>)
      [] data = "href" ->
            Doc(<<Node("ElementNode", sDiv, <<Attr(sHref, sMarkerTail)>>,
                       <<Node("TextNode", sMarker, <<>>, <<>>)>>)>>)
      [] OTHER -> Doc(<<Node("ElementNode", sDiv, <<Attr(sId, sPlain)>>, <<>>)>>)

EventTypes == {"response", "text", "dom"}

\* The tracer the caller of AddEvent read from the Store.
TracerRow(t) ==
    [ID |-> t, TracerPayload |-> sMarker,
     OverallSeverity |-> dbTracer[t].OverallSeverity,
     HasTracerEvents |-> dbTracer[t].HasTracerEvents]

\* The event the caller of AddEvent built on raw event r.
NewEvent(t, r, k) ==
    [ID |-> 0, TracerID |-> t, EventType |-> k, RawEventID |-> r,
     RawEvent |-> RawTable[r], DOMContexts |-> <<>>]

NoTracer == [ID |-> 0, TracerPayload |-> sEmpty, OverallSeverity |-> 0,
             HasTracerEvents |-> FALSE]
NoEvent == [ID |-> 0, TracerID |-> 0, EventType |-> "", RawEventID |-> 0,
            RawEvent |-> EmptyRaw, DOMContexts |-> <<>>]
NoNotes == [tracer |-> 0, event |-> 0, high |-> 0]
NoReply == [list |-> <<>>, for |-> "", key |-> 0]
NoHist == [kind |-> "none", key |-> 0, from |-> "", pre |-> <<>>, present |-> FALSE,
           rows |-> <<>>, reply |-> <<>>, wasLoaded |-> FALSE, afterFlush |-> FALSE,
           seen |-> <<>>, exact |-> FALSE]

(***************************************************************************)
(* The Store's event query and the cache worker.                           *)
(***************************************************************************)
\* Find(&tracerEvents, "tracer_id = ?", tracerID) with DOMContexts preloaded.
Rows(tracerID) == SelectSeq(dbEvents, LAMBDA e : e.TracerID = tracerID)

\* The rows of a tracer, each with its own raw event: what the Store holds.
StoreView(tracerID) ==
    LET rows == Rows(tracerID)
    IN [k \in 1..Len(rows) |-> [rows[k] EXCEPT !.RawEvent = RawTable[rows[k].RawEventID]]]

\* getTracerEventsDB lines 363-374, from position k (0-based) on.  cache is
\* the key set of the map `cache`: it is filled by position k and asked by
\* RawEventID, and a hit assigns to the loop's copy v, not to the slice.
RECURSIVE ResolveRaw(_, _, _)
ResolveRaw(rows, k, cache) ==
    IF k >= Len(rows) THEN rows
    ELSE IF rows[k + 1].RawEventID \in cache
    THEN ResolveRaw(rows, k + 1, cache)
    ELSE ResolveRaw([rows EXCEPT ![k + 1].RawEvent = RawTable[rows[k + 1].RawEventID]],
                    k + 1, cache \cup {k})

\* getTracerEventsDB, when the query succeeds.
getTracerEventsDB(tracerID) == ResolveRaw(Rows(tracerID), 0, {})

\* events[i] of a Go map: the zero value for a missing key.
Lookup(m, i) == IF i \in DOMAIN m THEN m[i] ELSE <<>>

\* events[i] = v
MapSet(m, i, v) == [k \in DOMAIN m \cup {i} |-> IF k = i THEN v ELSE m[k]]

EmptyMap == [k \in {} |-> <<>>]

Alive == wpc # "crashed"

\* Line 35: the condition under which a read goes to the Store.
CacheMiss(m, i) == Len(Lookup(m, i)) = 0

\* What the history keeps of a request taken from inReadChanEvent.
HistOf(req, kind, reply) ==
    [kind |-> kind, key |-> req.key, from |-> req.from,
     pre |-> Lookup(events, req.key), present |-> req.key \in DOMAIN events,
     rows |-> StoreView(ToUint(req.key)),
     reply |-> reply,
     wasLoaded |-> req.key \in loadedSet, afterFlush |-> req.key \in needFresh,
     seen |-> req.seen,
     exact |-> req.exact /\ req.key \in DOMAIN issued /\ issued[req.key] = req.seen]

\* Lines 33-34: the flush.
WorkerFlush(req) ==
    /\ events' = EmptyMap
    /\ hist' = NoHist
    /\ loadedSet' = {}
    /\ needFresh' = DOMAIN events
    /\ UNCHANGED <<wpc, wOut, faults>>

\* A slip: the query's error is logged and the empty list is installed and
\* sent.
WorkerLoad_Recover(req, ok) ==
    LET i == req.key
        list == IF ok THEN getTracerEventsDB(ToUint(i)) ELSE <<>>
    IN /\ events' = MapSet(events, i, list)
       /\ hist' = HistOf(req, IF ok THEN "load" ELSE "fatal", list)
       /\ loadedSet' = loadedSet \cup {i}
       /\ needFresh' = needFresh \ {i}
       /\ wpc' = "send"
       /\ wOut' = [list |-> list, for |-> req.from, key |-> i]
       /\ IF ok THEN UNCHANGED faults
          ELSE faults < MaxFaults /\ faults' = faults + 1

\* Lines 35-42: the load on a miss; the query succeeds (ok) or the worker
\* ends the process with log.Error.Fatal.
WorkerLoad(req, ok) ==
    LET i == req.key
        list == IF ok THEN getTracerEventsDB(ToUint(i)) ELSE <<>>
    IN /\ events' = MapSet(events, i, list)
       /\ hist' = HistOf(req, IF ok THEN "load" ELSE "fatal", list)
       /\ loadedSet' = loadedSet \cup {i}
       /\ needFresh' = needFresh \ {i}
       /\ IF ok
          THEN /\ wpc' = "send"
               /\ wOut' = [list |-> list, for |-> req.from, key |-> i]
               /\ UNCHANGED faults
          ELSE /\ faults < MaxFaults
               /\ faults' = faults + 1
               /\ wpc' = "crashed"
               /\ UNCHANGED wOut

\* Lines 43-45: the cached list.
WorkerHit(req) ==
    /\ hist' = HistOf(req, "hit", events[req.key])
    /\ needFresh' = needFresh \ {req.key}
    /\ wpc' = "send"
    /\ wOut' = [list |-> events[req.key], for |-> req.from, key |-> req.key]
    /\ UNCHANGED <<events, loadedSet, faults>>

\* Lines 30-45: case i = <-inR.
WorkerRead(ok) ==
    /\ Alive
    /\ wpc = "select"
    /\ inR # <<>>
    /\ inR' = Tail(inR)
    /\ LET req == Head(inR)
       IN IF req.key = FlushSentinel THEN ok /\ WorkerFlush(req)
          ELSE IF CacheMiss(events, req.key) THEN WorkerLoad(req, ok)
          ELSE ok /\ WorkerHit(req)
    /\ UNCHANGED <<storeVars, inU, out, callVars, ops, issued, clean, classVars>>

\* Lines 42 and 44: out <- events[i], which waits for room in outChanEvent.
WorkerSend ==
    /\ Alive
    /\ wpc = "send"
    /\ Len(out) < ChanCap
    /\ out' = Append(out, wOut)
    /\ wpc' = "select"
    /\ hist' = NoHist
    /\ UNCHANGED <<storeVars, events, wOut, inR, inU, callVars, ops, faults,
                   loadedSet, needFresh, issued, clean, classVars>>

\* A slip: the update's event replaces the list of its key.
CacheAppend_Replace(m, e) == MapSet(m, e.ID, <<e.Event>>)

\* Lines 47-51: the new list of key e.ID.
CacheAppend(m, e) ==
    IF e.ID \in DOMAIN m
    THEN MapSet(m, e.ID, Append(m[e.ID], e.Event))
    ELSE MapSet(m, e.ID, <<e.Event>>)

\* Lines 46-51: case e = <-inU.
WorkerUpdate ==
    /\ Alive
    /\ wpc = "select"
    /\ inU # <<>>
    /\ inU' = Tail(inU)
    /\ events' = CacheAppend(events, Head(inU))
    /\ UNCHANGED <<storeVars, wpc, wOut, inR, out, callVars, ops, faults,
                   histVars, classVars>>

(***************************************************************************)
(* GetEvents and ClearTracerEventCache.                                    *)
(***************************************************************************)
\* What is known of a caller's call: the error it returned, and whether its
\* parse and one of its Store writes failed.
Call(op, key) ==
    [op |-> op, key |-> key, err |-> "pending", parse |-> "none", store |-> "ok"]
NoCall == [op |-> "none", key |-> 0, err |-> "nil", parse |-> "none", store |-> "ok"]

ReadRequest(p, key) ==
    [key |-> key, from |-> p,
     seen |-> IF key \in DOMAIN issued THEN issued[key] ELSE <<>>,
     exact |-> key \in DOMAIN clean /\ clean[key]]

\* The history of a request sent on inReadChanEvent: a flush soils every key.
Soil(key) ==
    [k \in DOMAIN clean |-> clean[k] /\ k # key /\ key # FlushSentinel]

\* Line 380: inReadChanEvent <- int(tracerID).
GetSend(p, tracerID) ==
    /\ Alive
    /\ pc[p] = "idle"
    /\ ops < MaxOps
    /\ Len(inR) < ChanCap
    /\ inR' = Append(inR, ReadRequest(p, ToInt(tracerID)))
    /\ pc' = [pc EXCEPT ![p] = "recv"]
    /\ ret' = [ret EXCEPT ![p] = Call("get", ToInt(tracerID))]
    /\ got' = [got EXCEPT ![p] = NoReply]
    /\ notes' = [notes EXCEPT ![p] = NoNotes]
    /\ clean' = Soil(ToInt(tracerID))
    /\ ops' = ops + 1
    /\ UNCHANGED <<storeVars, workerVars, inU, out, tracerArg, eventArg, faults,
                   hist, loadedSet, needFresh, issued, classVars>>

\* Line 381 and GetEvents lines 397-402: return <-outChanEvent.
GetRecv(p) ==
    /\ Alive
    /\ pc[p] = "recv"
    /\ out # <<>>
    /\ got' = [got EXCEPT ![p] = Head(out)]
    /\ out' = Tail(out)
    /\ pc' = [pc EXCEPT ![p] = "idle"]
    /\ ret' = [ret EXCEPT ![p].err = "nil"]
    /\ UNCHANGED <<storeVars, workerVars, inR, inU, tracerArg, eventArg, notes,
                   ops, faults, histVars, classVars>>

\* Lines 386-388: inReadChanEvent <- -1.
ClearTracerEventCache(p) ==
    /\ Alive
    /\ pc[p] = "idle"
    /\ ops < MaxOps
    /\ Len(inR) < ChanCap
    /\ inR' = Append(inR, ReadRequest(p, FlushSentinel))
    /\ ret' = [ret EXCEPT ![p] = [Call("clear", FlushSentinel) EXCEPT !.err = "nil"]]
    /\ notes' = [notes EXCEPT ![p] = NoNotes]
    /\ clean' = Soil(FlushSentinel)
    /\ ops' = ops + 1
    /\ UNCHANGED <<storeVars, workerVars, inU, out, pc, tracerArg, eventArg, got,
                   faults, hist, loadedSet, needFresh, issued, classVars>>

(***************************************************************************)
(* AddEvent and getDOMContexts.                                            *)
(***************************************************************************)
\* Count k as the collaborator calls that fail in this step.
Fail(k) == /\ faults + k <= MaxFaults
           /\ faults' = faults + k

Returned(p, err) ==
    /\ pc' = [pc EXCEPT ![p] = "idle"]
    /\ ret' = [ret EXCEPT ![p].err = err]

\* Lines 68-80: the call, with the tracer and the event the caller built, up
\* to the test of the raw event's format.
AddEventCall(p, t, r, k) ==
    /\ Alive
    /\ pc[p] = "idle"
    /\ ops < MaxOps
    /\ tracerArg' = [tracerArg EXCEPT ![p] = TracerRow(t)]
    /\ eventArg' = [eventArg EXCEPT ![p] = NewEvent(t, r, k)]
    /\ ret' = [ret EXCEPT ![p] = Call("add", ToInt(t))]
    /\ notes' = [notes EXCEPT ![p] = NoNotes]
    /\ got' = [got EXCEPT ![p] = NoReply]
    /\ pc' = [pc EXCEPT ![p] = IF RawTable[r].Format = FormatHTML THEN "dom" ELSE "create"]
    /\ ops' = ops + 1
    /\ UNCHANGED <<storeVars, workerVars, chanVars, faults, histVars, classVars>>

\* A slip: the parse error is logged and the event is stored all the same.
DomParseFail_Ignored(p) ==
    /\ Fail(1)
    /\ pc' = [pc EXCEPT ![p] = "create"]
    /\ ret' = [ret EXCEPT ![p].parse = "failed"]
    /\ UNCHANGED <<storeVars, eventArg, notes>>

\* Lines 127-130 and 76-79: html.Parse fails and AddEvent returns the error.
DomParseFail(p) ==
    /\ Fail(1)
    /\ pc' = [pc EXCEPT ![p] = "idle"]
    /\ ret' = [ret EXCEPT ![p].err = "parse", ![p].parse = "failed"]
    /\ UNCHANGED <<storeVars, eventArg, notes>>

\* Line 156: the test that raises the tracer's severity.
NewSeverity(highest, tracer) == highest > tracer.OverallSeverity

\* Lines 153-180: the error getDOMContexts returns, that of the last update
\* it made.
DomErr(old, newSev, sevOK, hasOK) ==
    IF ~old THEN (IF hasOK THEN "nil" ELSE "store")
    ELSE IF newSev THEN (IF sevOK THEN "nil" ELSE "store")
    ELSE "nil"

\* Lines 156-172: the tracer's row after the updates that succeeded.
DomTracerRow(row, highest, old, newSev, sevOK, hasOK) ==
    [OverallSeverity |-> IF newSev /\ sevOK THEN highest ELSE row.OverallSeverity,
     HasTracerEvents |-> IF ~old /\ hasOK THEN TRUE ELSE row.HasTracerEvents]

\* Lines 132-180 and 76-79, for a document that parsed.
DomClassified(p, sevOK, hasOK) ==
    LET tracer == tracerArg[p]
        event == eventArg[p]
        found == Classify(Parse(event.RawEvent.Data), tracer.TracerPayload,
                          event.EventType)
        c == TextOverride(found, event.EventType)
        old == tracer.HasTracerEvents
        newSev == NewSeverity(c.highest, tracer)
        err == DomErr(old, newSev, sevOK, hasOK)
    IN IF Len(found.locs) = 0
       THEN /\ sevOK /\ hasOK
            /\ pc' = [pc EXCEPT ![p] = "create"]
            /\ UNCHANGED <<storeVars, eventArg, ret, notes, faults>>
       ELSE /\ newSev \/ sevOK
            /\ ~old \/ hasOK
            /\ Fail((IF sevOK THEN 0 ELSE 1) + (IF hasOK THEN 0 ELSE 1))
            /\ eventArg' = [eventArg EXCEPT ![p].DOMContexts = c.locs]
            /\ dbTracer' = [dbTracer EXCEPT ![tracer.ID] =
                               DomTracerRow(@, c.highest, old, newSev, sevOK, hasOK)]
            /\ notes' = [notes EXCEPT ![p].tracer =
                               IF ~old \/ newSev THEN @ + 1 ELSE @]
            /\ pc' = [pc EXCEPT ![p] = IF err = "nil" THEN "create" ELSE "idle"]
            /\ ret' = [ret EXCEPT ![p].err = IF err = "nil" THEN @ ELSE err,
                                  ![p].store = IF sevOK /\ hasOK THEN @ ELSE "failed"]
            /\ UNCHANGED dbEvents

\* Lines 75-80 and 116-181: getDOMContexts, as AddEvent calls it.
GetDOMContexts(p, parseOK, sevOK, hasOK) ==
    /\ Alive
    /\ pc[p] = "dom"
    /\ IF parseOK THEN DomClassified(p, sevOK, hasOK)
       ELSE sevOK /\ hasOK /\ DomParseFail(p)
    /\ UNCHANGED <<workerVars, chanVars, tracerArg, got, ops, histVars, classVars>>

\* Lines 86-91: store.DB.Create(&event), the raw event taken out of it.
CreateEvent(p, ok) ==
    /\ Alive
    /\ pc[p] = "create"
    /\ IF ok
       THEN /\ dbEvents' = Append(dbEvents,
                  [eventArg[p] EXCEPT !.ID = Len(dbEvents) + 1, !.RawEvent = EmptyRaw])
            /\ eventArg' = [eventArg EXCEPT ![p].ID = Len(dbEvents) + 1]
            /\ pc' = [pc EXCEPT ![p] = "send"]
            /\ UNCHANGED <<ret, faults>>
       ELSE /\ Fail(1)
            /\ pc' = [pc EXCEPT ![p] = "idle"]
            /\ ret' = [ret EXCEPT ![p].err = "store", ![p].store = "failed"]
            /\ UNCHANGED <<dbEvents, eventArg>>
    /\ UNCHANGED <<dbTracer, workerVars, chanVars, tracerArg, got, notes, ops,
                   histVars, classVars>>

\* A slip: the severity has to exceed the threshold.
HighNotifications_Above(copy) ==
    IF \E i \in 1..Len(copy.DOMContexts) : copy.DOMContexts[i].Severity > NotifySeverity
    THEN 1 ELSE 0

\* Lines 105-110: the Notifications one call sends.
HighNotifications(copy) ==
    IF \E i \in 1..Len(copy.DOMContexts) : copy.DOMContexts[i].Severity >= NotifySeverity
    THEN 1 ELSE 0

\* Lines 96-111: the update sent to the cache, the subscribers' updates, and
\* the return.
SendUpdate(p) ==
    /\ Alive
    /\ pc[p] = "send"
    /\ Len(inU) < ChanCap
    /\ LET key == ToInt(tracerArg[p].ID)
       IN /\ inU' = Append(inU, [ID |-> key, Event |-> eventArg[p]])
          /\ issued' = [issued EXCEPT ![key] = Append(@, eventArg[p])]
    /\ notes' = [notes EXCEPT ![p].event = @ + 1,
                              ![p].high = @ + HighNotifications(eventArg[p])]
    /\ Returned(p, "nil")
    /\ UNCHANGED <<storeVars, workerVars, inR, out, tracerArg, eventArg, got, ops,
                   faults, hist, loadedSet, needFresh, clean, classVars>>

(***************************************************************************)
(* The classifier on its own: getTracerLocation and the pass over its      *)
(* result in getDOMContexts, run on every document of a bounded set.       *)
(***************************************************************************)
sOnMarker == <<"o", "n", "z", "q">>

AttrLists ==
    {<<>>,
     <<Attr(sHref, sMarkerTail)>>,
     <<Attr(sHref, sMarkerMid)>>,
     <<Attr(sOnclick, sMarkerMid)>>,
     <<Attr(sId, sMarkerMid)>>,
     <<Attr(sId, sPlain)>>,
     <<Attr(sOnMarker, sMarker)>>,
     <<Attr(sMarker, sPlain), Attr(sId, sPlain)>>,
     <<Attr(sOnclick, sMarker), Attr(sId, sPlain)>>,
     <<Attr(sId, sMarker), Attr(sHref, sMarker)>>}

ElementNames == {sMarker, sScript, sDiv}

Leaves ==
    {Node(t, d, <<>>, <<>>) : t \in {"TextNode", "CommentNode", "DoctypeNode"},
                              d \in {sMarkerMid, sPlain}}

\* The trees of depth d at most.
RECURSIVE Trees(_)
Trees(d) ==
    Leaves \cup
    {Node("ElementNode", nm, a, ch) :
        nm \in ElementNames, a \in AttrLists,
        ch \in IF d = 0 THEN {<<>>} ELSE {<<>>} \cup {<<c>> : c \in Trees(d - 1)}}

\* The documents html.Parse yields: a document node over one tree, or over
\* two childless nodes.
Docs ==
    {Doc(<<t>>) : t \in Trees(MaxDepth - 1)}
        \cup {Doc(<<t1, t2>>) : t1 \in Trees(0), t2 \in Trees(0)}

NoDoc == [doc |-> Doc(<<>>), kind |-> ""]
NoContexts == [locs |-> <<>>, highest |-> 0]

\* Line 135: getTracerLocation(doc, &contexts, tracer.TracerPayload, *event, sevp).
ClassifyRun ==
    /\ cpc = "in"
    /\ cOut' = Classify(cIn.doc, sMarker, cIn.kind)
    /\ cpc' = "classified"
    /\ UNCHANGED <<storeVars, workerVars, chanVars, callVars, ops, faults,
                   histVars, cIn>>

\* Lines 137-148: no context, or the contexts of the event and its severity.
ClassifyOverride ==
    /\ cpc = "classified"
    /\ cOut' = IF Len(cOut.locs) = 0 THEN cOut ELSE TextOverride(cOut, cIn.kind)
    /\ cpc' = "done"
    /\ UNCHANGED <<storeVars, workerVars, chanVars, callVars, ops, faults,
                   histVars, cIn>>

(***************************************************************************)
(* The specifications.                                                     *)
(***************************************************************************)
\* The state after init(): empty channels, the worker at its select, an
\* empty Store.
InitProgram ==
    /\ dbEvents = <<>>
    /\ dbTracer = [t \in Tracers |-> [OverallSeverity |-> 0, HasTracerEvents |-> FALSE]]
    /\ events = EmptyMap
    /\ wpc = "select"
    /\ wOut = NoReply
    /\ inR = <<>>
    /\ inU = <<>>
    /\ out = <<>>
    /\ pc = [p \in Procs |-> "idle"]
    /\ tracerArg = [p \in Procs |-> NoTracer]
    /\ eventArg = [p \in Procs |-> NoEvent]
    /\ ret = [p \in Procs |-> NoCall]
    /\ got = [p \in Procs |-> NoReply]
    /\ notes = [p \in Procs |-> NoNotes]
    /\ ops = 0
    /\ faults = 0
    /\ hist = NoHist
    /\ loadedSet = {}
    /\ needFresh = {}
    /\ issued = [k \in Keys |-> <<>>]
    /\ clean = [k \in Keys |-> TRUE]

Init ==
    /\ InitProgram
    /\ cpc = "off"
    /\ cIn = NoDoc
    /\ cOut = NoContexts

\* The cache: callers that add an event with a JSON capture, read the events
\* of a tracer or clear the cache, and the worker.
Next ==
    \/ \E p \in Procs, t \in Tracers : AddEventCall(p, t, 5, "dom")
    \/ \E p \in Procs : CreateEvent(p, TRUE)
    \/ \E p \in Procs : SendUpdate(p)
    \/ \E p \in Procs, u \in Tracers : GetSend(p, u)
    \/ \E p \in Procs : GetRecv(p)
    \/ \E p \in Procs : ClearTracerEventCache(p)
    \/ \E ok \in BOOLEAN : WorkerRead(ok)
    \/ WorkerSend
    \/ WorkerUpdate

Spec == Init /\ [][Next]_vars

\* The captures and event types of the events added in SpecIngest: a marker
\* in a tag name and an onclick value, in a comment, in an href value, in a
\* tag name and an onclick value of a "text" event, in no place, and a JSON
\* capture.
IngestInputs ==
    {<<1, "dom">>, <<2, "dom">>, <<3, "dom">>, <<1, "text">>, <<4, "dom">>, <<5, "dom">>}

\* Ingestion: callers that add events to one tracer, with the parser and the
\* Store failing.  The updates stay in inUpdateChanEvent.
NextIngest ==
    \/ \E p \in Procs, in \in IngestInputs :
            ops < MaxAdds /\ AddEventCall(p, 1, in[1], in[2])
    \/ \E p \in Procs, parseOK \in BOOLEAN, sevOK \in BOOLEAN, hasOK \in BOOLEAN :
            GetDOMContexts(p, parseOK, sevOK, hasOK)
    \/ \E p \in Procs, ok \in BOOLEAN : CreateEvent(p, ok)
    \/ \E p \in Procs : SendUpdate(p)

SpecIngest == Init /\ [][NextIngest]_vars

\* The cache with every identifier a caller of GetEvents can pass, Store
\* loads that succeed, and a worker and callers that take the steps they can.
NextLive ==
    \/ \E p \in Procs, t \in Tracers : ops < MaxCalls /\ AddEventCall(p, t, 5, "dom")
    \/ \E p \in Procs : CreateEvent(p, TRUE)
    \/ \E p \in Procs : SendUpdate(p)
    \/ \E p \in Procs, u \in GetIDs : ops < MaxCalls /\ GetSend(p, u)
    \/ \E p \in Procs : GetRecv(p)
    \/ \E p \in Procs : ops < MaxCalls /\ ClearTracerEventCache(p)
    \/ WorkerRead(TRUE)
    \/ WorkerSend
    \/ WorkerUpdate

\* The worker's loop runs on (lines 28-53), and a caller that can send to or
\* receive from a channel does it.
Fairness ==
    /\ WF_vars(WorkerRead(TRUE))
    /\ WF_vars(WorkerSend)
    /\ WF_vars(WorkerUpdate)
    /\ \A p \in Procs : WF_vars(GetRecv(p))
    /\ \A p \in Procs : WF_vars(CreateEvent(p, TRUE))
    /\ \A p \in Procs : WF_vars(SendUpdate(p))

SpecLive == Init /\ [][NextLive]_vars /\ Fairness

\* The classifier run on every document and event type.
InitClassify ==
    /\ InitProgram
    /\ cpc = "in"
    /\ cIn \in [doc : Docs, kind : EventTypes]
    /\ cOut = NoContexts

NextClassify == ClassifyRun \/ ClassifyOverride

SpecClassify == InitClassify /\ [][NextClassify]_vars

(***************************************************************************)
(* The claims.                                                             *)
(***************************************************************************)
Quiet == \A p \in Procs : pc[p] = "idle"

Answered == hist.kind \in {"hit", "load"}

\* The IDs of the events of a list, in its order.
EventIDs(list) == [k \in 1..Len(list) |-> list[k].ID]

\* C1: a caller of GetEvents receives the reply the worker made for its own
\* request, never the reply made for another caller's request.
C1_OwnReply ==
    \A p \in Procs :
        ret[p].op = "get" /\ ret[p].err = "nil" =>
            got[p].for = p /\ got[p].key = ret[p].key

\* C2: a read of a key issued after the updates of that key (and with no
\* other read of the key, no flush and no later update issued) is answered
\* from the cache, without a Store load, with exactly the events of those
\* updates in their order.
C2_GetSeesAppends ==
    Answered /\ hist.exact /\ hist.seen # <<>> =>
        hist.kind = "hit" /\ hist.reply = hist.seen

\* The events the Store holds for tracer t.
StoredEvents(t) == {dbEvents[k] : k \in {j \in 1..Len(dbEvents) : dbEvents[j].TracerID = t}}

\* The severities of the findings the Store holds for tracer t.
StoredSeverities(t) ==
    UNION {{e.DOMContexts[i].Severity : i \in 1..Len(e.DOMContexts)} : e \in StoredEvents(t)}

SetMax(S) == IF S = {} THEN 0 ELSE CHOOSE m \in S : \A x \in S : x <= m

\* C3: the persisted overall severity of a tracer never decreases, and when
\* no AddEvent call is under way it is the highest severity of the findings
\* added for the tracer.
C3_Watermark ==
    [][/\ \A t \in Tracers :
            dbTracer'[t].OverallSeverity >= dbTracer[t].OverallSeverity
       /\ Quiet' => \A t \in Tracers :
            dbTracer'[t].OverallSeverity = SetMax(StoredSeverities(t))']_vars

\* C4: the first read of a key answered after a flush that found the key
\* cached makes one Store load and is answered with the list the Store holds.
C4_FreshAfterInvalidate ==
    Answered /\ hist.afterFlush =>
        hist.kind = "load" /\ hist.reply = hist.rows

\* C5: a read goes to the Store exactly when its key was not loaded since
\* the last flush, and is then answered with the list the Store holds; a key
\* that was loaded, an empty list included, is answered with the cached list
\* and no Store access.
C5_LoadIffNeverLoaded ==
    Answered =>
        /\ hist.kind = "load" <=> ~hist.wasLoaded
        /\ hist.kind = "load" => EventIDs(hist.reply) = EventIDs(hist.rows)
        /\ hist.kind = "hit" => hist.reply = hist.pre

\* C6: when no AddEvent call is under way, a tracer's has_tracer_events is
\* true exactly when the Store holds an event of the tracer with a finding;
\* and once true it stays true.
HasFinding(t) == \E e \in StoredEvents(t) : e.DOMContexts # <<>>

C6_HasEvents ==
    [][/\ Quiet' => \A t \in Tracers : dbTracer'[t].HasTracerEvents <=> HasFinding(t)'
       /\ \A t \in Tracers :
            dbTracer[t].HasTracerEvents => dbTracer'[t].HasTracerEvents]_vars

\* C7: the step of AddEvent in which the parse fails returns the error and
\* changes nothing: the Store, the cache and its channels are as before and
\* the call has passed nothing to the subscribers.
C7_ParseFailure ==
    [][\A p \in Procs :
          ret[p].parse # "failed" /\ ret'[p].parse = "failed" =>
              /\ pc'[p] = "idle"
              /\ ret'[p].err = "parse"
              /\ notes'[p] = NoNotes
              /\ UNCHANGED <<storeVars, workerVars, chanVars, issued, notes>>]_vars

\* C7's case: an AddEvent call whose parse failed has returned.
C7_Witness ==
    \E p \in Procs : ret[p].op = "add" /\ ret[p].parse = "failed" /\ pc[p] = "idle"

\* An AddEvent call of p has returned without an error.
Added(p) == ret[p].op = "add" /\ ret[p].err = "nil"

HasHighFinding(e) ==
    \E i \in 1..Len(e.DOMContexts) : e.DOMContexts[i].Severity >= 2

\* C8: an AddEvent call that succeeded has sent one Notification if a finding
\* of its event has a severity of 2 or more and none otherwise; none for a
\* "text" event.
C8_HighNotification ==
    \A p \in Procs :
        Added(p) =>
            /\ notes[p].high = (IF HasHighFinding(eventArg[p]) THEN 1 ELSE 0)
            /\ eventArg[p].EventType = "text" => notes[p].high = 0

\* C8's case: a call that sent the Notification, and a "text" event whose
\* marker is a tag name has been added.
C8_Witness ==
    /\ \E p \in Procs : Added(p) /\ notes[p].high = 1
    /\ \E k \in 1..Len(dbEvents) :
          dbEvents[k].EventType = "text" /\ dbEvents[k].DOMContexts # <<>>

\* C9: for a "text" event the classifier's pass leaves every finding with
\* severity 0 and the highest severity 0.
C9_TextSeverity ==
    cpc = "done" /\ cIn.kind = "text" =>
        /\ \A i \in 1..Len(cOut.locs) : cOut.locs[i].Severity = 0
        /\ cOut.highest = 0

\* C9's case: a "text" event whose marker is a tag name and an attribute name.
C9_Witness ==
    /\ cpc = "done"
    /\ cIn.kind = "text"
    /\ Len(cOut.locs) >= 2
    /\ Classify(cIn.doc, sMarker, cIn.kind).highest = 3

\* The nodes of the tree n in document order, each with its parent's Data.
RECURSIVE NodesOf(_, _)
RECURSIVE NodesBelow(_, _)
NodesOf(n, parentData) == <<[n |-> n, pd |-> parentData]>> \o NodesBelow(n, 1)

NodesBelow(n, i) ==
    IF i > Len(n.Children) THEN <<>>
    ELSE NodesOf(n.Children[i], n.Data) \o NodesBelow(n, i + 1)

\* The element nodes of the document whose tag name contains the marker.
MarkedElements(doc) ==
    SelectSeq(NodesOf(doc, sEmpty),
              LAMBDA x : x.n.Type = "ElementNode" /\ Contains(x.n.Data, sMarker))

\* No document or doctype node of the document contains the marker, so that
\* every NodeName finding is that of an element.
OnlyElementsNamed(doc) ==
    \A k \in 1..Len(NodesOf(doc, sEmpty)) :
        LET x == NodesOf(doc, sEmpty)[k]
        IN x.n.Type \in {"DocumentNode", "DoctypeNode"} => ~Contains(x.n.Data, sMarker)

RECURSIVE AttrsFrom(_, _)
AttrsFrom(nodes, k) ==
    IF k > Len(nodes) THEN <<>>
    ELSE [i \in 1..Len(nodes[k].n.Attr) |-> [n |-> nodes[k].n, a |-> nodes[k].n.Attr[i]]]
            \o AttrsFrom(nodes, k + 1)

\* The attributes of the document, in document order, whose value contains
\* the marker and whose name does not.
ValueMarked(doc) ==
    SelectSeq(AttrsFrom(NodesOf(doc, sEmpty), 1),
              LAMBDA x : Contains(x.a.Val, sMarker) /\ ~Contains(x.a.Key, sMarker))

\* The finding C11 states for such an attribute.
AttrValFinding(x, kind) ==
    IF kind # "response" /\ x.a.Key = sHref /\ HasPrefix(x.a.Val, sMarker)
    THEN DOMContext(x.n.Data, "AttrVal", 2, "AttributeValueStartHref")
    ELSE IF kind # "response" /\ HasPrefix(x.a.Key, sOn)
    THEN DOMContext(x.n.Data, "AttrVal", 2, "AttributeValueOnEventHandler")
    ELSE DOMContext(x.n.Data, "AttrVal", 1, "AttributeValueHTTPResponse")

MarkedComments(doc) ==
    SelectSeq(NodesOf(doc, sEmpty),
              LAMBDA x : x.n.Type = "CommentNode" /\ Contains(x.n.Data, sMarker))

C13_Append ==
    [][/\ Len(inU') < Len(inU) =>
            LET e == Head(inU)
            IN /\ events' = [k \in DOMAIN events \cup {e.ID} |->
                                IF k = e.ID THEN Append(Lookup(events, e.ID), e.Event)
                                ELSE events[k]]
               /\ UNCHANGED <<storeVars, faults, hist, loadedSet, wpc, wOut>>
       /\ \A k \in DOMAIN events :
            events[k] # <<>> =>
                \/ /\ inR # <<>>
                   /\ Head(inR).key = FlushSentinel
                   /\ events' = EmptyMap
                \/ /\ k \in DOMAIN events'
                   /\ events'[k] = events[k]
                \/ /\ k \in DOMAIN events'
                   /\ inU # <<>>
                   /\ Head(inU).ID = k
                   /\ events'[k] = Append(events[k], Head(inU).Event)]_vars

\* C13's case: the cache holds two keys, and the list of one of them ends
\* with two events that updates put there, in the order they were sent.
C13_Witness ==
    \E k \in DOMAIN events :
        /\ DOMAIN events # {k}
        /\ Len(events[k]) >= 2
        /\ Len(issued[k]) >= 2
        /\ inU = <<>>
        /\ SubSeq(events[k], Len(events[k]) - 1, Len(events[k]))
              = SubSeq(issued[k], Len(issued[k]) - 1, Len(issued[k]))

\* The severities of a list of findings.
Severities(locs) == {locs[i].Severity : i \in 1..Len(locs)}

\* C14: for an event that is not a "text" event, the highest severity the
\* classifier returns is the largest severity of the findings it emitted, 0
\* when it emitted none; a working severity that a node carries from a match
\* to a later attribute without the marker does not raise it beyond that.
C14_Highest ==
    cpc \in {"classified", "done"} /\ cIn.kind # "text" =>
        cOut.highest = SetMax(Severities(cOut.locs))

\* C14's case: a node whose tag name or first attribute matched with a
\* severity above 0 and which has a later attribute without the marker.
C14_Witness ==
    /\ cpc = "classified"
    /\ cIn.kind # "text"
    /\ cOut.highest > 0
    /\ \E k \in 1..Len(NodesOf(cIn.doc, sEmpty)) :
          LET n == NodesOf(cIn.doc, sEmpty)[k].n
              st == NodeMatch(n, NodesOf(cIn.doc, sEmpty)[k].pd, sMarker, cIn.kind,
                              NoContexts)
          IN /\ Len(n.Attr) = 2
             /\ AttrMatch(n, n.Attr[1], sMarker, cIn.kind, st).sev > 0
             /\ ~Contains(n.Attr[2].Key, sMarker)
             /\ ~Contains(n.Attr[2].Val, sMarker)

\* C15: an AddEvent call in which a Store write failed (the event's create,
\* the update of overall_severity or the update of has_tracer_events) has
\* returned an error, also when a later write of the call succeeded.
C15_ErrorsSurface ==
    \A p \in Procs :
        ret[p].op = "add" /\ ret[p].store = "failed" /\ pc[p] = "idle" =>
            ret[p].err # "nil"

\* C16: a read of a key the cache does not hold is answered by a load from
\* the Store and ends the worker only if the load fails; a load that fails
\* ends the process: nothing is sent for it, and every reply the worker puts
\* in outChanEvent is a cached list or the list of a load that succeeded.
C16_FatalLoad ==
    [][/\ hist'.kind = "fatal" => wpc' = "crashed" /\ out' = out
       /\ wpc' = "crashed" /\ wpc # "crashed" =>
            /\ hist'.kind = "fatal"
            /\ faults' = faults + 1
            /\ CacheMiss(events, hist'.key)
       /\ wpc = "crashed" => UNCHANGED vars
       /\ hist' # hist /\ hist'.kind \in {"hit", "load"} /\ ~hist'.present =>
            /\ hist'.kind = "load"
            /\ EventIDs(hist'.reply) = EventIDs(hist'.rows)
            /\ wpc' = "send"
       /\ Len(out') > Len(out) =>
            /\ hist.kind \in {"hit", "load"}
            /\ out' = Append(out, [list |-> hist.reply, for |-> hist.from,
                                   key |-> hist.key])]_vars

\* C16's case: a load failed and the worker has ended, with the caller of
\* the read still waiting and nothing sent to it.
C16_Witness ==
    /\ wpc = "crashed"
    /\ hist.kind = "fatal"
    /\ pc[hist.from] = "recv"
    /\ out = <<>>

\* C17: as long as the event of an AddEvent call is not persisted, the call
\* has passed nothing to the subscribers, and its steps leave the tracer's
\* row in the Store and inUpdateChanEvent as they are; so a call whose create
\* fails has had none of these effects.
C17_EffectsAfterPersist ==
    [][\A p \in Procs :
          ret'[p].op = "add" /\ eventArg'[p].ID = 0 =>
              /\ notes'[p] = NoNotes
              /\ pc'[p] # pc[p] => UNCHANGED <<dbTracer, inU>>]_vars

\* C18: no cached list holds a persisted event twice.
C18_NoDuplicates ==
    \A k \in DOMAIN events :
        \A i, j \in 1..Len(events[k]) :
            events[k][i].ID = events[k][j].ID => i = j

\* C19: the reply to a read holds every event of its key whose AddEvent call
\* had returned when the read was issued.
C19_NoOmission ==
    Answered =>
        \A i \in 1..Len(hist.seen) :
            \E j \in 1..Len(hist.reply) : hist.reply[j].ID = hist.seen[i].ID

\* C20: every call of GetEvents returns: a caller that waits for a reply on
\* outChanEvent receives one, whatever identifier it passed, when the loads
\* succeed and the worker runs.
C20_GetReturns ==
    \A p \in Procs : (pc[p] = "recv") ~> (pc[p] = "idle")

====
